---- MODULE Spec2Model ----
(***************************************************************************)
(* Release pipeline of movedoro: scripts/generate_latest_changes.py (the   *)
(* changelog extractor) and scripts/generate_html_for_sparkle_release.py   *)
(* (the HTML renderer), two processes that share only the working          *)
(* directory.                                                              *)
(*                                                                         *)
(* Text is a sequence of one-character strings.  Release_Notes.md is a     *)
(* sequence of lines (each newline-terminated in the file), the four       *)
(* intermediate files hold text, latest_changes.html holds the page.       *)
(***************************************************************************)
EXTENDS Integers, Sequences, FiniteSets, TLC

VARIABLES doc, files, html, status, lastExtract, okDoc, pass

vars == <<doc, files, html, status, lastExtract, okDoc, pass>>

----------------------------------------------------------------------------
(* Bounds *)

\* Largest number of lines of a Release_Notes.md drawn from all kinds of line.
MaxLines == 3

\* Largest number of lines after the heading of a Release_Notes.md drawn from
\* the kinds of line the scan tells apart.
MaxScanLines == 5

----------------------------------------------------------------------------
(* Text primitives (Python str methods) *)

Min(S) == CHOOSE x \in S : \A y \in S : x <= y

Max(S) == CHOOSE x \in S : \A y \in S : x >= y

\* str.isspace() on the characters of the model's alphabet
IsSpace(c) == c \in {" ", "\t", "\n"}

\* str.strip()
Strip(s) ==
  LET keep == {i \in 1..Len(s) : ~IsSpace(s[i])}
  IN  IF keep = {} THEN <<>> ELSE SubSeq(s, Min(keep), Max(keep))

\* str.startswith(p)
StartsWith(s, p) == Len(s) >= Len(p) /\ SubSeq(s, 1, Len(p)) = p

\* str.find(p) + 1: index of the leftmost occurrence of p in s, 0 if none
Find(s, p) ==
  LET hits == {i \in 1..(Len(s) - Len(p) + 1) : SubSeq(s, i, i + Len(p) - 1) = p}
  IN  IF hits = {} THEN 0 ELSE Min(hits)

\* index of the rightmost occurrence of p in s, 0 if none
FindLast(s, p) ==
  LET hits == {i \in 1..(Len(s) - Len(p) + 1) : SubSeq(s, i, i + Len(p) - 1) = p}
  IN  IF hits = {} THEN 0 ELSE Max(hits)

\* the literals of the extractor
HeaderPrefix == <<"#", " ">>

Separator == <<" ", "-", " ">>

VersionWord == <<"V", "e", "r", "s", "i", "o", "n", " ">>

\* s[2:] of a line that starts with '# '
DropPrefix(s) == SubSeq(s, Len(HeaderPrefix) + 1, Len(s))

\* ' - ' in header_content
HasSeparator(s) == Find(s, Separator) # 0

\* a mutation of SplitOnce: splits at the last ' - ' (rsplit)
SplitOnceLast(s) ==
  LET i == FindLast(s, Separator)
  IN  <<SubSeq(s, 1, i - 1), SubSeq(s, i + Len(Separator), Len(s))>>

\* header_content.split(' - ', 1), used where ' - ' occurs in header_content
SplitOnce(s) ==
  LET i == Find(s, Separator)
  IN  <<SubSeq(s, 1, i - 1), SubSeq(s, i + Len(Separator), Len(s))>>

\* f.readlines(): every line of the file with its newline
ReadLines(d) == [i \in 1..Len(d) |-> d[i] \o <<"\n">>]

----------------------------------------------------------------------------
(* The working directory *)

TextFiles == {"new_version", "old_version", "title", "latest_changes"}

NoFile == [exists |-> FALSE, data |-> <<>>]

NoFiles == [f \in TextFiles |-> NoFile]

\* a mutation of WriteFile: mode 'a' instead of 'w'
AppendFile(fs, name, data) ==
  [fs EXCEPT ![name] = [exists |-> TRUE, data |-> fs[name].data \o data]]

\* open(name, 'w') then f.write(data): the file is created or truncated
WriteFile(fs, name, data) ==
  [fs EXCEPT ![name] = [exists |-> TRUE, data |-> data]]

----------------------------------------------------------------------------
(* ChangelogExtractor: scripts/generate_latest_changes.py *)

\* a mutation of HeaderOk: the header check is dropped
HeaderAlwaysOk(first_header) == first_header = first_header

\* first_header.startswith('# '), first_header the stripped first line
HeaderOk(first_header) == StartsWith(first_header, HeaderPrefix)

\* a mutation of ParseHeader: splits at the last ' - '
ParseHeaderLast(header_content) ==
  IF HasSeparator(header_content)
  THEN [new_version |-> SplitOnceLast(header_content)[1],
        title |-> SplitOnceLast(header_content)[2]]
  ELSE [new_version |-> header_content,
        title |-> VersionWord \o header_content]

\* lines 29-34: (new_version, title) of the first header's content
ParseHeader(header_content) ==
  IF HasSeparator(header_content)
  THEN [new_version |-> SplitOnce(header_content)[1],
        title |-> SplitOnce(header_content)[2]]
  ELSE [new_version |-> header_content,
        title |-> VersionWord \o header_content]

\* a mutation of VersionToken: the header content is not split
WholeHeader(header_content) == header_content

\* lines 46-50: old_version of the next header's content
VersionToken(header_content) ==
  IF HasSeparator(header_content)
  THEN SplitOnce(header_content)[1]
  ELSE header_content

\* a mutation of IsBulletLine: '- ' bullets are not recognised
IsStarLine(line) == StartsWith(line, <<"*", " ">>)

\* line.startswith('* ') or line.startswith('- ')
IsBulletLine(line) ==
  StartsWith(line, <<"*", " ">>) \/ StartsWith(line, <<"-", " ">>)

\* lines 40-51: the loop over lines[1:], from index i with the changes so far
RECURSIVE ScanLines(_, _, _)
ScanLines(lines, i, latest_changes) ==
  IF i > Len(lines)
  THEN [latest_changes |-> latest_changes, old_version |-> <<>>]
  ELSE LET line == Strip(lines[i])
       IN  IF IsBulletLine(line)
           THEN ScanLines(lines, i + 1, latest_changes \o line \o <<"\n">>)
           ELSE IF StartsWith(line, HeaderPrefix)
                THEN [latest_changes |-> latest_changes,
                      old_version |-> VersionToken(DropPrefix(line))]
                ELSE ScanLines(lines, i + 1, latest_changes)

\* lines 54-64: the four writes, in the order of the code
WriteOutputs(fs, new_version, old_version, title, latest_changes) ==
  WriteFile(
    WriteFile(
      WriteFile(
        WriteFile(fs, "new_version", Strip(new_version)),
        "old_version", Strip(old_version)),
      "title", Strip(title)),
    "latest_changes", Strip(latest_changes))

\* all four output files created empty
Truncated(fs) == [f \in TextFiles |-> [exists |-> TRUE, data |-> <<>>]]

\* a mutation of ExtractorMain: the output files are opened for writing
\* before the input is validated
ExtractorMainEager(d, fs) ==
  LET lines == ReadLines(d)
  IN  IF Len(lines) = 0
      THEN [exit |-> 1, error |-> "empty", files |-> Truncated(fs)]
      ELSE LET first_header == Strip(lines[1])
           IN  IF ~HeaderOk(first_header)
               THEN [exit |-> 1, error |-> "header", files |-> Truncated(fs)]
               ELSE LET h == ParseHeader(DropPrefix(first_header))
                        scan == ScanLines(lines, 2, <<>>)
                    IN  [exit |-> 0, error |-> "none",
                         files |-> WriteOutputs(fs, h.new_version, scan.old_version,
                                                h.title, scan.latest_changes)]

\* main(): exit status, diagnostic and the text files it leaves
ExtractorMain(d, fs) ==
  LET lines == ReadLines(d)
  IN  IF Len(lines) = 0
      THEN [exit |-> 1, error |-> "empty", files |-> fs]
      ELSE LET first_header == Strip(lines[1])
           IN  IF ~HeaderOk(first_header)
               THEN [exit |-> 1, error |-> "header", files |-> fs]
               ELSE LET h == ParseHeader(DropPrefix(first_header))
                        scan == ScanLines(lines, 2, <<>>)
                    IN  [exit |-> 0, error |-> "none",
                         files |-> WriteOutputs(fs, h.new_version, scan.old_version,
                                                h.title, scan.latest_changes)]

----------------------------------------------------------------------------
(* HtmlRenderer: scripts/generate_html_for_sparkle_release.py *)

NoHtml == [exists |-> FALSE, page |-> [title |-> <<>>, body |-> <<>>]]

\* the text of s split at its newlines
RECURSIVE SplitLines(_)
SplitLines(s) ==
  LET i == Find(s, <<"\n">>)
  IN  IF i = 0 THEN <<s>>
      ELSE <<SubSeq(s, 1, i - 1)>> \o SplitLines(SubSeq(s, i + 1, Len(s)))

\* number of '#' characters that start s
RECURSIVE LeadingHashes(_)
LeadingHashes(s) ==
  IF s # <<>> /\ Head(s) = "#" THEN 1 + LeadingHashes(Tail(s)) ELSE 0

\* s without the '#' characters that end it
RECURSIVE DropClosingHashes(_)
DropClosingHashes(s) ==
  IF s # <<>> /\ s[Len(s)] = "#"
  THEN DropClosingHashes(SubSeq(s, 1, Len(s) - 1))
  ELSE s

\* the heading element of a '#' line: level from the opening hashes, text
\* without closing hashes and surrounding whitespace
HeadingElement(line) ==
  LET n == LeadingHashes(line)
      text == Strip(DropClosingHashes(SubSeq(line, n + 1, Len(line))))
  IN  [tag |-> IF n = 1 THEN "h1" ELSE "h2to6", text |-> text, items |-> <<>>]

\* a list line: a marker, at least one space, the item's text
IsListLine(line) == IsBulletLine(line)

ListItem(line) == Strip(SubSeq(line, 3, Len(line)))

\* block structure of the markdown lines from index i: headings, lists of
\* contiguous list lines, paragraphs; blank lines separate blocks
RECURSIVE MdBlocks(_, _, _, _)
MdBlocks(lines, i, elems, inList) ==
  IF i > Len(lines) THEN elems
  ELSE LET line == lines[i]
       IN  IF Strip(line) = <<>>
           THEN MdBlocks(lines, i + 1, elems, FALSE)
           ELSE IF StartsWith(line, <<"#">>)
           THEN MdBlocks(lines, i + 1, Append(elems, HeadingElement(line)), FALSE)
           ELSE IF IsListLine(line)
           THEN IF inList
                THEN MdBlocks(lines, i + 1,
                       [elems EXCEPT ![Len(elems)].items = Append(@, ListItem(line))],
                       TRUE)
                ELSE MdBlocks(lines, i + 1,
                       Append(elems, [tag |-> "ul", text |-> <<>>,
                                      items |-> <<ListItem(line)>>]),
                       TRUE)
           ELSE MdBlocks(lines, i + 1,
                  Append(elems, [tag |-> "p", text |-> Strip(line), items |-> <<>>]),
                  FALSE)

\* markdown.markdown(md_content): the elements of the HTML fragment
Markdown(md_content) == MdBlocks(SplitLines(md_content), 1, <<>>, FALSE)

\* a mutation of MdContent: the heading line is left out
MdContentNoHeading(title, changes) == changes

\* line 16: f"# {title}\n\n{changes}"
MdContent(title, changes) ==
  HeaderPrefix \o title \o <<"\n", "\n">> \o changes

\* lines 22-52: the fixed skeleton around <title>{title}</title> and {html}
FullHtml(title, body) == [title |-> title, body |-> body]

\* a mutation of InputsPresent: only the title file is required
TitlePresent(fs) == fs["title"].exists

\* lines 9-13: both open(..., 'r') succeed
InputsPresent(fs) == fs["title"].exists /\ fs["latest_changes"].exists

\* a mutation of WriteHtml: mode 'a' instead of 'w'
AppendHtml(page, full_html) ==
  [exists |-> TRUE,
   page |-> [title |-> full_html.title,
             body |-> page.page.body \o full_html.body]]

\* lines 54-55: open('latest_changes.html', 'w') then f.write(full_html)
WriteHtml(page, full_html) == [exists |-> TRUE, page |-> full_html]

\* main(): FileNotFoundError on a missing input, else the page is written
RendererMain(fs, page) ==
  IF ~InputsPresent(fs)
  THEN [exit |-> 1, error |-> "missing", html |-> page]
  ELSE LET title == Strip(fs["title"].data)
           changes == Strip(fs["latest_changes"].data)
           body == Markdown(MdContent(title, changes))
       IN  [exit |-> 0, error |-> "none",
            html |-> WriteHtml(page, FullHtml(title, body))]

----------------------------------------------------------------------------
(* Inputs *)

\* first lines of Release_Notes.md
FirstLines ==
  { <<"#", " ", "1", " ", "-", " ", "a">>,
    <<"#", " ", "2">>,
    <<"#", " ", " ", "2">>,
    <<" ", "#", " ", "1", " ", "-", " ", "a">>,
    <<"#", " ">>,
    <<>>,
    <<"a">>,
    <<"*", " ", "a">>,
    <<"#", "\t", "1">>,
    <<"#", " ", "1", " ", "-", " ", "a", " ", "-", " ", "b">>,
    <<"#", " ", "1", " ", " ", "-", " ", " ", "a", "\t">>,
    <<"#", " ", "-", " ", "a">>,
    <<"#", " ", " ", "-", " ", "a">>,
    <<"#", " ", "1", " ", "-", " ">>,
    <<"#", " ", "1", " ", "-", " ", "-", " ", "a">> }

\* lines after the first
RestLines ==
  { <<>>,
    <<"*", " ", "a">>,
    <<"-", " ", "b">>,
    <<" ", "*", " ", "a", " ", "b", "\t">>,
    <<"a">>,
    <<"*", "a">>,
    <<"#", " ", "0", " ", "-", " ", "b">>,
    <<"\t", "#", " ", " ", "0", " ">>,
    <<"#", " ", "1", " ", "-", " ", "a", " ", "-", " ", "b">> }

\* the documents of the parsing specification: at most MaxLines lines
DocsOfLen(n) ==
  { <<f>> \o r : f \in FirstLines, r \in [1..(n - 1) -> RestLines] }

\* the kinds of line the scan tells apart: bullet, bullet in whitespace,
\* other text, heading
ScanKinds ==
  { <<"-", " ", "b">>,
    <<" ", "*", " ", "a", " ", "b", "\t">>,
    <<"a">>,
    <<"\t", "#", " ", " ", "0", " ">> }

\* longer documents: one heading and up to MaxScanLines lines of those kinds
ScanDocs ==
  UNION { { << <<"#", " ", "1", " ", "-", " ", "a">> >> \o r :
              r \in [1..n -> ScanKinds] } : n \in 0..MaxScanLines }

ParseDocs ==
  {<<>>} \cup UNION { DocsOfLen(n) : n \in 1..MaxLines } \cup ScanDocs

\* the documents the changelog author switches between in the pipeline
ReleaseDocs ==
  { <<>>,
    << <<"a">> >>,
    << <<"#", " ", "2">> >>,
    << <<"#", " ", "1", " ", "-", " ", "a">>,
       <<"*", " ", "a">>,
       <<>>,
       <<"-", " ", "b">>,
       <<"#", " ", "0", " ", "-", " ", "b">>,
       <<"*", " ", "b">> >>,
    << <<"#", " ", "1", " ", "-", " ", "a", " ", "#">>,
       <<"*", " ", "a", " ", "b">> >>,
    << <<"#", " ", "2", " ", "-", " ", "b">>,
       <<"a">>,
       <<"*", " ", "b">>,
       <<"*", " ", "a">>,
       <<"*", " ", "b">> >> }

\* a working directory left by an earlier release
PriorDoc ==
  << <<"#", " ", "0", " ", "-", " ", "b">>, <<"*", " ", "b">>,
     <<"#", " ", "0", " ", "0">> >>

PriorFiles == ExtractorMain(PriorDoc, NoFiles).files

----------------------------------------------------------------------------
(* State machine *)

NoDoc == [known |-> FALSE, doc |-> <<>>]

Artifacts == TextFiles \cup {"latest_changes.html"}

\* a fresh checkout: Release_Notes.md and no output file
Init ==
  /\ doc \in ReleaseDocs
  /\ files = NoFiles
  /\ html = NoHtml
  /\ status = [stage |-> "none", exit |-> 0, error |-> "none"]
  /\ lastExtract = "none"
  /\ okDoc = NoDoc
  /\ pass = 0

\* one run of generate_latest_changes.py
Extract ==
  LET r == ExtractorMain(doc, files)
  IN  /\ files' = r.files
      /\ status' = [stage |-> "extract", exit |-> r.exit, error |-> r.error]
      /\ lastExtract' = IF r.exit = 0 THEN "ok" ELSE "failed"
      /\ okDoc' = IF r.exit = 0 THEN [known |-> TRUE, doc |-> doc] ELSE okDoc
      /\ pass' = IF pass \in {0, 2} THEN pass + 1 ELSE pass
      /\ UNCHANGED <<doc, html>>

\* one run of generate_html_for_sparkle_release.py
Render ==
  LET r == RendererMain(files, html)
  IN  /\ html' = r.html
      /\ status' = [stage |-> "render", exit |-> r.exit, error |-> r.error]
      /\ pass' = IF pass \in {1, 3} THEN pass + 1 ELSE pass
      /\ UNCHANGED <<doc, files, lastExtract, okDoc>>

\* the changelog author replaces Release_Notes.md
EditReleaseNotes ==
  \E d \in ReleaseDocs \ {doc} :
    /\ doc' = d
    /\ status' = [stage |-> "edit", exit |-> 0, error |-> "none"]
    /\ pass' = 0
    /\ UNCHANGED <<files, html, lastExtract, okDoc>>

\* the packaging pipeline removes one artifact from the working directory
RemoveArtifact ==
  \E f \in Artifacts :
    /\ IF f \in TextFiles THEN files[f].exists ELSE html.exists
    /\ files' = IF f \in TextFiles THEN [files EXCEPT ![f] = NoFile] ELSE files
    /\ html' = IF f \in TextFiles THEN html ELSE NoHtml
    /\ status' = [stage |-> "remove", exit |-> 0, error |-> "none"]
    /\ pass' = 0
    /\ UNCHANGED <<doc, lastExtract, okDoc>>

Next == Extract \/ Render \/ EditReleaseNotes \/ RemoveArtifact

Spec == Init /\ [][Next]_vars

\* one release: any document, in a fresh directory or in one left by an
\* earlier release
InitParse ==
  /\ doc \in ParseDocs
  /\ \E prior \in BOOLEAN :
       /\ files = IF prior THEN PriorFiles ELSE NoFiles
       /\ lastExtract = IF prior THEN "ok" ELSE "none"
       /\ okDoc = IF prior THEN [known |-> TRUE, doc |-> PriorDoc] ELSE NoDoc
  /\ html = NoHtml
  /\ status = [stage |-> "none", exit |-> 0, error |-> "none"]
  /\ pass = 0

NextParse == Extract \/ Render

SpecParse == InitParse /\ [][NextParse]_vars

----------------------------------------------------------------------------
(* What the claims speak of, stated on the document itself *)

\* a heading line: starts with '# ' after trimming
IsHeading(line) ==
  LET t == Strip(line) IN Len(t) >= 2 /\ t[1] = "#" /\ t[2] = " "

\* a bullet line: starts with '* ' or '- ' after trimming
IsBullet(line) ==
  LET t == Strip(line) IN Len(t) >= 2 /\ t[1] \in {"*", "-"} /\ t[2] = " "

\* the text after '# ' of a trimmed heading line
Remainder(line) == LET t == Strip(line) IN SubSeq(t, 3, Len(t))

\* the positions where ' - ' occurs in r
SepAt(r) ==
  {i \in 1..(Len(r) - 2) : r[i] = " " /\ r[i + 1] = "-" /\ r[i + 2] = " "}

\* the text before the first ' - ' of r, or r if there is none
TokenOf(r) ==
  IF SepAt(r) = {} THEN r
  ELSE LET i == CHOOSE i \in SepAt(r) : \A j \in SepAt(r) : i <= j
       IN  SubSeq(r, 1, i - 1)

\* the text after the first ' - ' of r
AfterSep(r) ==
  LET i == CHOOSE i \in SepAt(r) : \A j \in SepAt(r) : i <= j
  IN  SubSeq(r, i + 3, Len(r))

\* the document is accepted: it has a line and its first line is a heading
Accepted(d) == d # <<>> /\ IsHeading(d[1])

\* index of the second heading of an accepted document, 0 if it has one heading
SecondHeading(d) ==
  LET hs == {i \in 2..Len(d) : IsHeading(d[i])}
  IN  IF hs = {} THEN 0 ELSE CHOOSE i \in hs : \A j \in hs : i <= j

\* the trimmed bullet lines between the first line and the second heading
BulletsOf(d) ==
  LET k == SecondHeading(d)
      last == IF k = 0 THEN Len(d) ELSE k - 1
      idx == {i \in 2..last : IsBullet(d[i])}
      nth(n) == CHOOSE i \in idx : Cardinality({j \in idx : j <= i}) = n
  IN  [n \in 1..Cardinality(idx) |-> Strip(d[nth(n)])]

\* lines joined by single newlines
RECURSIVE JoinLines(_)
JoinLines(ls) ==
  IF ls = <<>> THEN <<>>
  ELSE IF Len(ls) = 1 THEN ls[1]
  ELSE ls[1] \o <<"\n">> \o JoinLines(Tail(ls))

ExpectedOldVersion(d) ==
  IF SecondHeading(d) = 0 THEN <<>>
  ELSE Strip(TokenOf(Remainder(d[SecondHeading(d)])))

ExpectedChanges(d) == JoinLines(BulletsOf(d))

ExpectedNewVersion(d) == Strip(TokenOf(Remainder(d[1])))

ExpectedTitle(d) ==
  LET r == Remainder(d[1])
  IN  IF SepAt(r) # {} THEN Strip(AfterSep(r)) ELSE VersionWord \o r

\* the extractor has just run on the current document and accepted it
ExtractedNow == status.stage = "extract" /\ status.exit = 0

Written(f, text) == files[f] = [exists |-> TRUE, data |-> text]

----------------------------------------------------------------------------
(* C1 *)

\* C1: a run of the extractor on an empty document, or on one whose first
\* line is not a '# ' heading, ends with exit status 1 and leaves every file
\* of the working directory as it was.
C1_FailureWritesNothing ==
  [][(status'.stage = "extract" /\ ~Accepted(doc))
       => (status'.exit = 1 /\ files' = files /\ html' = html)]_vars

\* a rejected run in a directory that holds the files of an earlier release
C1_Witness ==
  /\ status.stage = "extract" /\ status.exit = 1 /\ status.error = "header"
  /\ files = PriorFiles

----------------------------------------------------------------------------
(* C2 *)

\* C2: after an accepted run old_version holds the trimmed version token of
\* the second heading, the empty string if there is one heading; the lines
\* after the second heading do not influence it.
C2_OldVersion ==
  ExtractedNow =>
    /\ Written("old_version", ExpectedOldVersion(doc))
    /\ LET k == SecondHeading(doc)
       IN  k # 0 =>
             ExtractorMain(SubSeq(doc, 1, k), NoFiles).files["old_version"]
               = files["old_version"]

\* an accepted document with a third heading after the second
C2_Witness ==
  /\ ExtractedNow
  /\ SecondHeading(doc) = 2
  /\ Len(doc) = 3 /\ IsHeading(doc[3])
  /\ Remainder(doc[3]) # Remainder(doc[2])
  /\ SepAt(Remainder(doc[2])) # {}
  /\ files["old_version"].data = <<"0">>

----------------------------------------------------------------------------
(* C3 *)

\* C3 as stated: the first heading's remainder is split at the first ' - '
\* into (version, title); without ' - ' the title file is "Version " followed
\* by the content of the new_version file.
C3_Original ==
  ExtractedNow =>
    LET r == Remainder(doc[1])
    IN  IF SepAt(r) # {}
        THEN /\ Written("new_version", Strip(TokenOf(r)))
             /\ Written("title", Strip(AfterSep(r)))
        ELSE /\ Written("new_version", Strip(r))
             /\ Written("title", VersionWord \o files["new_version"].data)

\* C3 amended: without ' - ' the title file is "Version " followed by the
\* remainder of the trimmed heading as it stands; it is "Version " followed
\* by the new_version file when the remainder starts with no whitespace.
C3_FirstHeading ==
  ExtractedNow =>
    LET r == Remainder(doc[1])
    IN  IF SepAt(r) # {}
        THEN /\ Written("new_version", Strip(TokenOf(r)))
             /\ Written("title", Strip(AfterSep(r)))
        ELSE /\ Written("new_version", Strip(r))
             /\ Written("title", VersionWord \o r)
             /\ ~IsSpace(r[1]) =>
                  Written("title", VersionWord \o files["new_version"].data)

\* a heading without ' - ' whose remainder starts with whitespace
C3_Witness ==
  /\ ExtractedNow
  /\ SepAt(Remainder(doc[1])) = {}
  /\ IsSpace(Remainder(doc[1])[1])
  /\ files["title"].data # VersionWord \o files["new_version"].data

----------------------------------------------------------------------------
(* C4 *)

\* C4: after an accepted run latest_changes holds the trimmed bullet lines
\* between the first line and the second heading, joined by single newlines
\* in document order, with no surrounding whitespace.
C4_LatestChanges ==
  ExtractedNow =>
    /\ Written("latest_changes", ExpectedChanges(doc))
    /\ Strip(files["latest_changes"].data) = files["latest_changes"].data

\* a bullet, a skipped text line, a bullet in whitespace, the second heading,
\* then a bullet that is left out
C4_Witness ==
  /\ ExtractedNow
  /\ Len(doc) = 6
  /\ IsBullet(doc[2]) /\ Strip(doc[2])[1] = "-"
  /\ ~IsBullet(doc[3]) /\ ~IsHeading(doc[3])
  /\ IsBullet(doc[4]) /\ Strip(doc[4]) # doc[4]
  /\ SecondHeading(doc) = 5
  /\ IsBullet(doc[6])
  /\ files["latest_changes"].data
       = <<"-", " ", "b", "\n", "*", " ", "a", " ", "b">>

----------------------------------------------------------------------------
(* C5 *)

\* the bullet lines held by the latest_changes file
ChangeLines ==
  IF files["latest_changes"].data = <<>> THEN <<>>
  ELSE SplitLines(files["latest_changes"].data)

Elements(tag) ==
  {i \in 1..Len(html.page.body) : html.page.body[i].tag = tag}

\* letters, digits and spaces: text no markdown rule rewrites
PlainText(s) ==
  \A i \in 1..Len(s) :
    s[i] \in {"a", "b", "0", "1", "2", "V", "e", "r", "s", "i", "o", "n", " "}

\* the renderer has just succeeded on the outputs of an accepted run on the
\* current document
RoundTrip ==
  /\ status.stage = "render" /\ status.exit = 0
  /\ pass >= 2
  /\ lastExtract = "ok"

\* C5 as stated: the page has exactly one <h1>, whose text is the title, and
\* exactly one <ul>, with one <li> per extracted bullet line, also when no
\* bullet line was extracted.
C5_Original ==
  RoundTrip =>
    /\ Cardinality(Elements("h1")) = 1
    /\ \A i \in Elements("h1") : html.page.body[i].text = files["title"].data
    /\ Cardinality(Elements("ul")) = 1
    /\ \A i \in Elements("ul") : Len(html.page.body[i].items) = Len(ChangeLines)

\* C5 amended: when the title and the bullet texts are plain words, the page
\* has exactly one <h1>, whose text is the title; it has no <ul> when no bullet
\* line was extracted, and otherwise exactly one <ul> with one <li> per
\* extracted bullet line.
C5_RoundTrip ==
  (/\ RoundTrip
   /\ PlainText(files["title"].data)
   /\ \A n \in 1..Len(ChangeLines) : PlainText(ListItem(ChangeLines[n])))
  =>
    /\ Cardinality(Elements("h1")) = 1
    /\ \A i \in Elements("h1") : html.page.body[i].text = files["title"].data
    /\ Len(ChangeLines) = 0 => Elements("ul") = {}
    /\ Len(ChangeLines) > 0 =>
         /\ Cardinality(Elements("ul")) = 1
         /\ \A i \in Elements("ul") :
              Len(html.page.body[i].items) = Len(ChangeLines)

\* a round trip with three plain bullets, of both markers
C5_Witness ==
  /\ RoundTrip
  /\ PlainText(files["title"].data)
  /\ Len(ChangeLines) = 3
  /\ \A n \in 1..3 : PlainText(ListItem(ChangeLines[n]))
  /\ Cardinality(Elements("ul")) = 1

----------------------------------------------------------------------------
(* C6 *)

\* C6: once both stages have run in order on an unchanged Release_Notes.md,
\* a further run of either stage leaves the five output files as they are.
C6_Idempotent ==
  [][(pass >= 2 /\ status'.stage \in {"extract", "render"})
       => (files' = files /\ html' = html)]_vars

\* both stages have run twice, in order, on the same document
C6_Witness ==
  /\ pass = 4
  /\ status.stage = "render" /\ status.exit = 0
  /\ lastExtract = "ok"
  /\ Len(ChangeLines) >= 2

----------------------------------------------------------------------------
(* C7 *)

\* C7: a renderer run with title or latest_changes absent aborts with a
\* file-not-found error and leaves latest_changes.html and the existing
\* inputs as they were; with both present it succeeds and writes the page of
\* the current title.
C7_MissingArtifact ==
  [][status'.stage = "render" =>
       /\ files' = files
       /\ IF files["title"].exists /\ files["latest_changes"].exists
          THEN /\ status'.exit = 0
               /\ html'.exists
               /\ html'.page.title = files["title"].data
          ELSE /\ status'.exit = 1 /\ status'.error = "missing"
               /\ html' = html]_vars

\* an aborted run: title is there, latest_changes is not, the page of an
\* earlier run is still there
C7_Witness ==
  /\ status.stage = "render" /\ status.exit = 1
  /\ files["title"].exists /\ ~files["latest_changes"].exists
  /\ html.exists

----------------------------------------------------------------------------
(* C8 *)

\* C8: after an accepted run each of the four files holds exactly the value
\* derived from the current Release_Notes.md, whatever it held before.
C8_Overwrite ==
  ExtractedNow =>
    /\ Written("new_version", ExpectedNewVersion(doc))
    /\ Written("old_version", ExpectedOldVersion(doc))
    /\ Written("title", ExpectedTitle(doc))
    /\ Written("latest_changes", ExpectedChanges(doc))

\* one heading and no bullets, after an earlier release that had bullets and
\* a previous version (its page is still there)
C8_Witness ==
  /\ ExtractedNow
  /\ Len(doc) = 1
  /\ files["old_version"].data = <<>>
  /\ files["latest_changes"].data = <<>>
  /\ html.exists /\ Elements("ul") # {}

----------------------------------------------------------------------------
(* C9 *)

\* the line itself starts with '# '
StartsWithHash(line) == Len(line) >= 2 /\ line[1] = "#" /\ line[2] = " "

AllWritten == \A f \in TextFiles : files[f].exists

\* C9 as stated: an empty document fails as empty input; a document with a
\* line fails as malformed header iff its first line does not start with
\* '# '; otherwise it is accepted with exit status 0 and all four files.
C9_Original ==
  status.stage = "extract" =>
    IF doc = <<>>
    THEN status.exit = 1 /\ status.error = "empty"
    ELSE /\ (status.exit = 1 /\ status.error = "header") <=> ~StartsWithHash(doc[1])
         /\ StartsWithHash(doc[1]) => (status.exit = 0 /\ AllWritten)

\* C9 amended: the criterion is applied to the first line with its
\* surrounding whitespace trimmed.
C9_Acceptance ==
  status.stage = "extract" =>
    IF doc = <<>>
    THEN status.exit = 1 /\ status.error = "empty"
    ELSE /\ (status.exit = 1 /\ status.error = "header") <=> ~IsHeading(doc[1])
         /\ IsHeading(doc[1]) =>
              (status.exit = 0 /\ AllWritten /\ lastExtract = "ok")

\* an accepted document whose first line starts with whitespace, in a fresh
\* directory
C9_Witness ==
  /\ status.stage = "extract" /\ status.exit = 0
  /\ ~StartsWithHash(doc[1])
  /\ AllWritten
  /\ okDoc.doc = doc

----------------------------------------------------------------------------
(* C10 *)

\* C10 as stated: the renderer writes latest_changes.html only when the most
\* recent extractor run succeeded.
C10_Original ==
  (status.stage = "render" /\ status.exit = 0) => lastExtract = "ok"

\* the page of the outputs of an accepted run on d
PageOf(d) ==
  FullHtml(ExpectedTitle(d),
           Markdown(MdContent(ExpectedTitle(d), ExpectedChanges(d))))

\* C10 amended: the renderer writes a page whenever title and latest_changes
\* exist; the page it writes is that of the most recent accepted extractor
\* run, and there is no page while no extractor run has been accepted.
C10_StageOrder ==
  /\ ~okDoc.known => ~html.exists
  /\ (status.stage = "render" /\ status.exit = 0) =>
       html = [exists |-> TRUE, page |-> PageOf(okDoc.doc)]

\* a page written after a rejected run, from the outputs of an earlier
\* Release_Notes.md
C10_Witness ==
  /\ status.stage = "render" /\ status.exit = 0
  /\ lastExtract = "failed"
  /\ okDoc.doc # doc
  /\ html.exists

====
